---- MODULE Spec2Model ----
(***************************************************************************)
(* Model of data_consumer::continuous_data_consumer<StateProcessor>        *)
(* (sstables/consumer.hh): the prestate machine, the read primitives, the  *)
(* drive loop process(), the input_stream callback operator() and the      *)
(* window bookkeeping of fast_forward_to / skip_to.                        *)
(*                                                                         *)
(* A temporary_buffer<char> is a view [off, len] over the immutable bytes  *)
(* of the file, so share() and trim_front() are what they are in the code: *)
(* aliasing sub-views.  Integers are kept as host memory images (least     *)
(* significant byte first, a little-endian host), so read_be and net::ntoh *)
(* are byte swaps and no 64-bit value has to fit a model integer.          *)
(***************************************************************************)
EXTENDS Integers, Sequences, FiniteSets, TLC

VARIABLES
    file,     \* the bytes behind the input_stream, offset o is file[o + 1]
    prog,     \* the StateProcessor: the primitives it reads, in order
    nc,       \* whether its resume states answer non_consuming() with true
    c,        \* the continuous_data_consumer's fields
    sp,       \* the StateProcessor's state
    strm,     \* the input_stream: next offset it hands, consume() in progress
    g,        \* history: what was published, delivered, skipped, verified
    last,     \* the last operation: its inputs and what it returned
    failed    \* "none", or the assertion / exception that aborted the program

vars == <<file, prog, nc, c, sp, strm, g, last, failed>>

---------------------------------------------------------------------------
(* Bounds of the model *)

FileLen == 8
MaxFF == 1
MaxVerify == 2

(* sizeof() of the four integer types and of the scratch union *)
SizeU8 == 1
SizeU16 == 2
SizeU32 == 4
SizeU64 == 8
ScratchLen == 8

NoByte == 0 - 1

Min(a, b) == IF a < b THEN a ELSE b

Range(s) == {s[i] : i \in 1..Len(s)}

---------------------------------------------------------------------------
(* temporary_buffer<char> *)

Buf(off, len) == [off |-> off, len |-> len]

Bytes(d) == [i \in 1..d.len |-> file[d.off + i]]

Offsets(d) == [i \in 1..d.len |-> d.off + i - 1]

Share(d, off, len) == Buf(d.off + off, len)

BufTrimFront(d, n) == Buf(d.off + n, d.len - n)

\* data.trim_front(n) on the buffer being processed: its first n bytes are gone
TrimFront(m, n) ==
    [m EXCEPT !.data = BufTrimFront(@, n),
              !.g.eaten = @ \o Offsets(Buf(m.data.off, n))]

\* data.trim(n): the buffer keeps its first n bytes
Trim(m, n) ==
    [m EXCEPT !.data = Buf(@.off, n),
              !.g.eaten = @ \o Offsets(Buf(m.data.off + n, m.data.len - n))]

\* std::copy(src.begin(), src.end(), dst + at)
CopyInto(dst, at, src) ==
    [i \in 1..Len(dst) |->
        IF at < i /\ i <= at + Len(src) THEN src[i - at] ELSE dst[i]]

---------------------------------------------------------------------------
(* Byte order *)

Bswap(x) == [i \in 1..Len(x) |-> x[Len(x) + 1 - i]]

\* read_be<T>(p): the host image of the big-endian T at p
ReadBe(p, w) == Bswap(SubSeq(p, 1, w))

\* net::ntoh(x)
Ntoh(x) == Bswap(x)

\* _read_int.uintN: the first w bytes of the union, as they lie in memory
UnionLoad(bytes, w) == SubSeq(bytes, 1, w)

\* A value lands in a slot the StateProcessor reads (_u8.._u64, or *where)
Publish(m, slot, val, src) ==
    [m EXCEPT !.g.pub = Append(@, [slot |-> slot, val |-> val, src |-> src])]

---------------------------------------------------------------------------
(* Read primitives *)

Yes == [t |-> "yes", n |-> 0]
No == [t |-> "no", n |-> 0]
SkipBytes(n) == [t |-> "skip", n |-> n]

\* consume_be<T>(data) into the slot of width w
ConsumeBe(m, w, slot) ==
    Publish([TrimFront(m, w) EXCEPT !.c[slot] = ReadBe(Bytes(m.data), w),
                                    !.status = "ready"],
            slot, ReadBe(Bytes(m.data), w), SubSeq(Offsets(m.data), 1, w))

read_8(m) ==
    IF m.data.len >= SizeU8
    THEN ConsumeBe(m, SizeU8, "u8")
    ELSE [m EXCEPT !.c.pos = 0,
                   !.c.prestate = "READING_U8",
                   !.status = "waiting"]

\* The slow path shared by read_16, read_32 and read_64
ArmInt(m, pre) ==
    [Trim([m EXCEPT !.c.read_int = CopyInto(@, 0, Bytes(m.data)),
                    !.g.int_src = CopyInto(@, 0, Offsets(m.data)),
                    !.c.pos = m.data.len], 0)
       EXCEPT !.c.prestate = pre, !.status = "waiting"]

read_16(m) ==
    IF m.data.len >= SizeU16
    THEN ConsumeBe(m, SizeU16, "u16")
    ELSE ArmInt(m, "READING_U16")

read_32(m) ==
    IF m.data.len >= SizeU32
    THEN ConsumeBe(m, SizeU32, "u32")
    ELSE ArmInt(m, "READING_U32")

read_64(m) ==
    IF m.data.len >= SizeU64
    THEN ConsumeBe(m, SizeU64, "u64")
    ELSE ArmInt(m, "READING_U64")

\* temporary_buffer<char>(len): fresh storage, its content indeterminate
Fresh(len) == [i \in 1..len |-> NoByte]

read_bytes(m, len) ==
    IF m.data.len >= len
    THEN Publish([TrimFront(m, len) EXCEPT
                     !.c.where = Bytes(Share(m.data, 0, len)),
                     !.status = "ready"],
                 "where", Bytes(Share(m.data, 0, len)),
                 Offsets(Share(m.data, 0, len)))
    ELSE [Trim([m EXCEPT
                  !.c.read_bytes = CopyInto(Fresh(len), 0, Bytes(m.data)),
                  !.g.bytes_src = CopyInto(Fresh(len), 0, Offsets(m.data)),
                  !.c.pos = m.data.len], 0)
            EXCEPT !.c.prestate = "READING_BYTES", !.status = "waiting"]

---------------------------------------------------------------------------
(* Prestate machine *)

\* The switch of do_process_buffer: the width of the integer being read, 0
\* for the default branch (unknown prestate)
IntLen(pre) ==
    CASE pre = "READING_U8" -> SizeU8
      [] pre = "READING_U16" -> SizeU16
      [] pre = "READING_U32" -> SizeU32
      [] pre = "READING_U64" -> SizeU64
      [] OTHER -> 0

IntSlot(pre) ==
    CASE pre = "READING_U8" -> "u8"
      [] pre = "READING_U16" -> "u16"
      [] pre = "READING_U32" -> "u32"
      [] OTHER -> "u64"

\* StoreInt without net::ntoh: the union's bytes taken as a host integer
StoreIntNoSwap(pre, bytes) == UnionLoad(bytes, IntLen(pre))

\* "done reading the integer, store it in _u8, _u16, _u32 or _u64"
StoreInt(pre, bytes) ==
    IF pre = "READING_U8"
    THEN UnionLoad(bytes, SizeU8)
    ELSE Ntoh(UnionLoad(bytes, IntLen(pre)))

\* ResumeCount one byte at a time
ResumeCountOne(len, pos, size) == Min(1, size)

\* ResumeCount without the bound of the read's width
ResumeCountAll(len, pos, size) == size

\* auto n = std::min(len - _pos, data.size())
ResumeCount(len, pos, size) == Min(len - pos, size)

\* if (_pos == _read_bytes.size()): *_read_bytes_where = std::move(_read_bytes)
BytesDone(m) ==
    IF m.c.pos = Len(m.c.read_bytes)
    THEN Publish([m EXCEPT !.c.where = m.c.read_bytes,
                           !.c.read_bytes = <<>>,
                           !.c.prestate = "NONE",
                           !.g.disarmedAt = m.g.psCalls],
                 "where", m.c.read_bytes, m.g.bytes_src)
    ELSE m

\* n bytes of the buffer go to _read_bytes + _pos
BytesCopy(m, n) ==
    [TrimFront([m EXCEPT
                  !.c.read_bytes =
                      CopyInto(@, m.c.pos, Bytes(Share(m.data, 0, n))),
                  !.g.bytes_src =
                      CopyInto(@, m.c.pos, Offsets(Share(m.data, 0, n)))],
               n)
       EXCEPT !.c.pos = @ + n]

ResumeBytes(m) ==
    BytesDone(BytesCopy(m, ResumeCount(Len(m.c.read_bytes), m.c.pos,
                                       m.data.len)))

\* if (_pos == len): publish and disarm
IntDone(m, pre, len) ==
    IF m.c.pos = len
    THEN Publish([m EXCEPT !.c[IntSlot(pre)] = StoreInt(pre, m.c.read_int),
                           !.c.prestate = "NONE",
                           !.g.disarmedAt = m.g.psCalls],
                 IntSlot(pre), StoreInt(pre, m.c.read_int),
                 SubSeq(m.g.int_src, 1, len))
    ELSE m

\* n bytes of the buffer go to _read_int.bytes + _pos
IntCopy(m, n) ==
    [TrimFront([m EXCEPT
                  !.c.read_int =
                      CopyInto(@, m.c.pos, Bytes(Share(m.data, 0, n))),
                  !.g.int_src =
                      CopyInto(@, m.c.pos, Offsets(Share(m.data, 0, n)))],
               n)
       EXCEPT !.c.pos = @ + n]

ResumeInt(m) ==
    IF IntLen(m.c.prestate) = 0
    THEN [m EXCEPT !.failed = "malformed_sstable_exception"]
    ELSE IF ~(m.c.pos < IntLen(m.c.prestate))
    THEN [m EXCEPT !.failed = "assert(_pos < len)"]
    ELSE IntDone(IntCopy(m, ResumeCount(IntLen(m.c.prestate), m.c.pos,
                                        m.data.len)),
                 m.c.prestate, IntLen(m.c.prestate))

\* History: the prestate machine ran, and whether before any process_state
Resuming(m) ==
    [m EXCEPT !.g.resumed = TRUE,
              !.g.resumedFirst = @ \/ m.g.psCalls = 0]

do_process_buffer(m) ==
    IF m.c.prestate = "READING_BYTES"
    THEN ResumeBytes(Resuming(m))
    ELSE ResumeInt(Resuming(m))

process_buffer(m) ==
    IF m.c.prestate # "NONE" THEN do_process_buffer(m) ELSE m

---------------------------------------------------------------------------
(* The StateProcessor: it reads prog's primitives one after another, over *)
(* and over.  A read that returns waiting moves it to the resume state of  *)
(* that read, which uses the value once the prestate machine has stored    *)
(* it.  After each value it answers the verdict the step names.            *)

IsRead(op) == op.k \in {"u8", "u16", "u32", "u64", "bytes"}

ReadPrim(m, op) ==
    CASE op.k = "u8" -> read_8(m)
      [] op.k = "u16" -> read_16(m)
      [] op.k = "u32" -> read_32(m)
      [] op.k = "u64" -> read_64(m)
      [] OTHER -> read_bytes(m, op.n)

NextIdx(i) == IF i >= Len(prog) THEN 1 ELSE i + 1

Returns(m, verdict) ==
    [m EXCEPT !.ret = verdict, !.g.psCalls = @ + 1, !.g.verdict = verdict]

Advance(m, verdict) ==
    Returns([m EXCEPT !.sp = [idx |-> NextIdx(@.idx), phase |-> "start"]],
            verdict)

Proceed(v) == IF v = "no" THEN No ELSE Yes

\* if (read_N(data) != read_status::ready) { _state = the resume state; break; }
AfterRead(r, op) ==
    IF r.status = "ready"
    THEN Advance(r, Proceed(op.ret))
    ELSE Returns([r EXCEPT !.sp.phase = "resume"], Yes)

StateStep(m, op) ==
    IF m.sp.phase = "resume"
    THEN Advance(m, Proceed(op.ret))
    ELSE IF IsRead(op)
    THEN AfterRead(ReadPrim(m, op), op)
    ELSE IF op.k = "skip"
    THEN \* skip op.n bytes: those in the buffer by trimming, the rest
         \* by asking the stream
         IF op.n <= m.data.len
         THEN Advance(TrimFront(m, op.n), Yes)
         ELSE Advance(Trim(m, 0), SkipBytes(op.n - m.data.len))
    ELSE \* "rawskip": asks for a skip without looking at the buffer
         Advance(m, SkipBytes(op.n))

\* History: whether process_state was entered with a prestate armed
Entered(m) == [m EXCEPT !.g.psArmed = @ \/ m.c.prestate # "NONE"]

process_state(m) == StateStep(Entered(m), prog[m.sp.idx])

non_consuming(m) == nc /\ m.sp.phase = "resume"

verify_end_state(m) == [m EXCEPT !.g.verify = @ + 1]

---------------------------------------------------------------------------
(* Drive loop *)

\* operator==(const processing_result&, proceed)
ResultIs(result, value) == result.t = value

RECURSIVE process(_)

\* AfterProcessState without the loop: process returns after one state
AfterProcessStateOnce(m) == m

\* if (ret != proceed::yes) return ret;  else the loop goes on
AfterProcessState(m) ==
    IF ~ResultIs(m.ret, "yes") THEN m ELSE process(m)

\* AfterProcessBuffer with the condition of the loop tested again after
\* process_buffer: an emptied buffer ends the loop before process_state
AfterProcessBufferNeedsData(m) ==
    IF m.failed # "none"
    THEN m
    ELSE IF m.c.prestate # "NONE"
    THEN IF m.data.len = 0
         THEN [m EXCEPT !.ret = Yes]
         ELSE [m EXCEPT !.failed = "assert(data.size() == 0) in process"]
    ELSE IF m.data.len = 0 /\ ~non_consuming(m)
    THEN [m EXCEPT !.ret = Yes]
    ELSE AfterProcessState(process_state(m))

\* AfterProcessBuffer without the test of _prestate: process_state is called
\* whatever the prestate machine has left
AfterProcessBufferNoCheck(m) ==
    IF m.failed # "none" THEN m ELSE AfterProcessState(process_state(m))

\* After process_buffer: a prestate still armed needs another buffer
AfterProcessBuffer(m) ==
    IF m.failed # "none"
    THEN m
    ELSE IF m.c.prestate # "NONE"
    THEN IF m.data.len = 0
         THEN [m EXCEPT !.ret = Yes]
         ELSE [m EXCEPT !.failed = "assert(data.size() == 0) in process"]
    ELSE AfterProcessState(process_state(m))

process(m) ==
    IF m.data.len > 0 \/ non_consuming(m)
    THEN AfterProcessBuffer(process_buffer(m))
    ELSE [m EXCEPT !.ret = Yes]

---------------------------------------------------------------------------
(* operator(): the callback input_stream::consume() hands each buffer to *)

Continue == [t |-> "continue", n |-> 0, tail |-> Buf(0, 0)]
StopConsuming(tail) == [t |-> "stop", n |-> 0, tail |-> tail]
SkipOutcome(n) == [t |-> "skip", n |-> n, tail |-> Buf(0, 0)]

\* Segment without the share: the whole buffer is processed
SegmentWhole(data, remain) == data

\* auto segment = data.share(0, _remain)
Segment(data, remain) == Share(data, 0, remain)

\* if (_remain == 0 && ret == proceed::yes)
ClippedVerifies(remain, ret) == remain = 0 /\ ResultIs(ret, "yes")

ClippedVerify(r, ret, tail) ==
    [(IF ClippedVerifies(r.c.remain, ret) THEN verify_end_state(r) ELSE r)
       EXCEPT !.outcome = StopConsuming(tail)]

\* auto len = _remain - segment.size()
ClippedLen(remain, segment) == remain - segment.len

ClippedReturn(r, remain, data) ==
    IF r.failed # "none"
    THEN r
    ELSE ClippedVerify(
           [r EXCEPT !.c.remain = @ - ClippedLen(remain, r.data),
                     !.c.position = @ + ClippedLen(remain, r.data)],
           r.ret,
           BufTrimFront(data, ClippedLen(remain, r.data)))

\* data.size() >= _remain: process the beginning, return the rest
CallbackClipped(m, data) ==
    ClippedReturn(process([m EXCEPT !.data = Segment(data, m.c.remain)]),
                  m.c.remain, data)

\* data.empty(): end of file
CallbackEof(m, data) ==
    [verify_end_state(m) EXCEPT !.outcome = StopConsuming(data)]

\* Rewind without the refund of the leftover
RewindNothing(position, leftover) == position

\* _stream_position.position -= data.size()
Rewind(position, leftover) == position - leftover

\* VisitProceed with _remain debited by the whole buffer, leftover or not
VisitProceedFullDebit(r, orig_data_size) ==
    [r EXCEPT !.c.remain = @ - orig_data_size,
              !.c.position = Rewind(@, r.data.len),
              !.outcome = IF r.ret.t = "yes"
                          THEN Continue
                          ELSE StopConsuming(r.data)]

\* The visitor's proceed branch
VisitProceed(r, orig_data_size) ==
    [r EXCEPT !.c.remain = @ - (orig_data_size - r.data.len),
              !.c.position = Rewind(@, r.data.len),
              !.outcome = IF r.ret.t = "yes"
                          THEN Continue
                          ELSE StopConsuming(r.data)]

\* if (skip.get_value() >= _remain)
SkipExhausts(n, remain) == n >= remain

\* SkipWithin without _remain -= skip.get_value()
SkipWithinNoDebit(r, n) ==
    IF SkipExhausts(n, r.c.remain)
    THEN [verify_end_state(r) EXCEPT
             !.c.position = @ + r.c.remain,
             !.c.remain = 0,
             !.outcome = StopConsuming(r.data)]
    ELSE [r EXCEPT !.c.position = @ + n,
                   !.outcome = SkipOutcome(n)]

\* The visitor's skip_bytes branch, once _remain -= orig_data_size is done
SkipWithin(r, n) ==
    IF SkipExhausts(n, r.c.remain)
    THEN [verify_end_state(r) EXCEPT
             !.c.position = @ + r.c.remain,
             !.c.remain = 0,
             !.outcome = StopConsuming(r.data)]
    ELSE [r EXCEPT !.c.position = @ + n,
                   !.c.remain = @ - n,
                   !.outcome = SkipOutcome(n)]

VisitSkip(r, orig_data_size) ==
    IF r.data.len # 0
    THEN [r EXCEPT !.failed = "assert(data.size() == 0) in operator()"]
    ELSE SkipWithin([r EXCEPT !.c.remain = @ - orig_data_size], r.ret.n)

WholeReturn(r, orig_data_size) ==
    IF r.failed # "none"
    THEN r
    ELSE IF r.ret.t = "skip"
    THEN VisitSkip(r, orig_data_size)
    ELSE VisitProceed(r, orig_data_size)

\* CallbackWhole without _stream_position.position += data.size()
CallbackWholeNoCredit(m, data) ==
    WholeReturn(process([m EXCEPT !.data = data]), data.len)

\* otherwise: the entire buffer may be processed
CallbackWhole(m, data) ==
    WholeReturn(process([m EXCEPT !.c.position = @ + data.len,
                                  !.data = data]),
                data.len)

CallbackCase(remain, data) ==
    IF data.len >= remain THEN "clipped"
    ELSE IF data.len = 0 THEN "eof"
    ELSE "whole"

\* Callback with the end-of-file branch not an else branch: an empty buffer
\* that was processed as the clipped case is handled as end of file too
CallbackFallThrough(m, data) ==
    CASE CallbackCase(m.c.remain, data) = "clipped" ->
           IF data.len = 0
           THEN CallbackEof(CallbackClipped(m, data), data)
           ELSE CallbackClipped(m, data)
      [] CallbackCase(m.c.remain, data) = "eof" -> CallbackEof(m, data)
      [] OTHER -> CallbackWhole(m, data)

Callback(m, data) ==
    CASE CallbackCase(m.c.remain, data) = "clipped" -> CallbackClipped(m, data)
      [] CallbackCase(m.c.remain, data) = "eof" -> CallbackEof(m, data)
      [] OTHER -> CallbackWhole(m, data)

---------------------------------------------------------------------------
(* Window bookkeeping *)

\* ResetPrestate without the reset
KeepPrestate(pre) == pre

\* _prestate = prestate::NONE
ResetPrestate(pre) == "NONE"

\* The second half of fast_forward_to, _stream_position.position being begin;
\* m.skip is the n handed to _input.skip(n)
Rewindow(m, n, end) ==
    IF ~(end >= m.c.position)
    THEN [m EXCEPT !.failed = "assert(end >= _stream_position.position)"]
    ELSE [m EXCEPT !.c.remain = end - m.c.position,
                   !.c.prestate = ResetPrestate(@),
                   !.skip = n]

fast_forward_to(m, begin, end) ==
    IF ~(begin >= m.c.position)
    THEN [m EXCEPT !.failed = "assert(begin >= _stream_position.position)"]
    ELSE Rewindow([m EXCEPT !.c.position = begin], begin - m.c.position, end)

\* skip_to with the window end taken after position has moved to begin
SkipToFromBegin(m, begin) == fast_forward_to(m, begin, begin + m.c.remain)

skip_to(m, begin) == fast_forward_to(m, begin, m.c.position + m.c.remain)

position == c.position

eof == c.remain = 0

---------------------------------------------------------------------------
(* The inputs: files, StateProcessors, windows *)

Rd(k) == [k |-> k, n |-> 0, ret |-> "yes"]
RdStop(k) == [k |-> k, n |-> 0, ret |-> "no"]
RdBytes(n) == [k |-> "bytes", n |-> n, ret |-> "yes"]
SkipOp(n) == [k |-> "skip", n |-> n, ret |-> "yes"]
RawSkipOp(n) == [k |-> "rawskip", n |-> n, ret |-> "yes"]

Programs ==
    { <<Rd("u16"), Rd("u32"), Rd("u8")>>,
      <<Rd("u32"), RdBytes(3)>>,
      <<Rd("u64"), Rd("u8")>>,
      <<Rd("u8"), RdStop("u16")>>,
      <<Rd("u8"), SkipOp(3)>>,
      <<Rd("u16"), SkipOp(FileLen)>>,
      <<Rd("u8"), RawSkipOp(2)>> }

\* The StateProcessors that only read, and never pause
ReadPrograms ==
    {p \in Programs : \A i \in 1..Len(p) : IsRead(p[i]) /\ p[i].ret = "yes"}

\* Every byte its own value, so a value names the offsets it was read from
DistinctFile == [i \in 1..FileLen |-> i]

SliceBytes == {1, 255}

NoVerdict == [t |-> "none", n |-> 0]

NoOp ==
    [op |-> "init", case |-> "-", buf |-> Buf(0, 0), pos |-> 0, rem |-> 0,
     pre |-> "NONE", phase |-> "start", off |-> 0, verify |-> 0, npub |-> 0,
     outcome |-> Continue, afterFF |-> FALSE, begin |-> 0, end |-> 0,
     cpos |-> 0, width |-> 0, ret |-> Yes]

\* The consumer as its constructor leaves it.  _pos, the slots and the
\* scratch union are not initialised: nothing reads them before a read
\* primitive has written them.
NewConsumer(start, maxlen) ==
    [position |-> start, remain |-> maxlen, prestate |-> "NONE",
     pos |-> 0, u8 |-> <<>>, u16 |-> <<>>, u32 |-> <<>>, u64 |-> <<>>,
     read_int |-> [i \in 1..ScratchLen |-> NoByte],
     read_bytes |-> <<>>, where |-> <<>>]

NewProcessor == [idx |-> 1, phase |-> "start"]

NewHistory(start, maxlen) ==
    [start |-> start, maxlen |-> maxlen, pub |-> <<>>,
     eaten |-> <<>>, resumed |-> FALSE, resumedFirst |-> FALSE,
     psCalls |-> 0,
     verdict |-> NoVerdict, verify |-> 0,
     int_src |-> [i \in 1..ScratchLen |-> NoByte],
     bytes_src |-> <<>>,
     delivered |-> 0, skipped |-> 0,
     eatenAll |-> {}, skippedOffs |-> {}, discarded |-> {},
     ffs |-> 0, ffPending |-> FALSE,
     wend |-> start + maxlen, psArmed |-> FALSE, disarmedAt |-> NoByte,
     cyc |-> [pos |-> start, delivered |-> 0, skipped |-> 0]]

InitWith(files, progs, ncs, starts, maxlens) ==
    /\ file \in files
    /\ prog \in progs
    /\ nc \in ncs
    /\ \E start \in starts, maxlen \in maxlens :
         /\ c = NewConsumer(start, maxlen)
         /\ strm = [off |-> start, active |-> FALSE]
         /\ g = NewHistory(start, maxlen)
    /\ sp = NewProcessor
    /\ last = NoOp
    /\ failed = "none"

Init == InitWith({DistinctFile}, Programs, BOOLEAN, {0, 1},
                 {3, FileLen - 2, FileLen + 1})

InitSlice == InitWith([1..FileLen -> SliceBytes], ReadPrograms, BOOLEAN, {0},
                      {FileLen})

---------------------------------------------------------------------------
(* The machine an operation starts from, and the state it leaves *)

MachOf(cons, proc, hist, buf) ==
    [c |-> cons, sp |-> proc,
     g |-> [hist EXCEPT !.eaten = <<>>, !.resumed = FALSE,
                        !.resumedFirst = FALSE, !.psCalls = 0,
                        !.disarmedAt = NoByte,
                        !.verdict = NoVerdict],
     data |-> buf, status |-> "ready", ret |-> Yes, failed |-> "none",
     outcome |-> Continue, skip |-> 0]

Mach(buf) == MachOf(c, sp, g, buf)

\* The number of bytes the armed read needs: len of the integer switch, or
\* _read_bytes.size()
Width(cons) ==
    IF cons.prestate = "READING_BYTES"
    THEN Len(cons.read_bytes)
    ELSE IntLen(cons.prestate)

Before(op, case, buf, begin, end) ==
    [op |-> op, case |-> case, buf |-> buf, pos |-> c.position,
     rem |-> c.remain, pre |-> c.prestate, phase |-> sp.phase,
     off |-> strm.off, verify |-> g.verify, npub |-> Len(g.pub),
     outcome |-> Continue, afterFF |-> g.ffPending, begin |-> begin,
     end |-> end, cpos |-> c.pos, width |-> Width(c), ret |-> Yes]

\* What input_stream::consume() does with the callback's answer
BufEnd(buf) == buf.off + buf.len

StreamAfter(buf, outcome) ==
    CASE outcome.t = "continue" -> [off |-> BufEnd(buf), active |-> TRUE]
      [] outcome.t = "stop" ->
           [off |-> BufEnd(buf) - outcome.tail.len, active |-> FALSE]
      [] OTHER ->
           [off |-> Min(BufEnd(buf) + outcome.n, FileLen), active |-> TRUE]

StreamSkipped(buf, outcome) ==
    IF outcome.t = "skip"
    THEN {o \in 0..(FileLen - 1) :
            buf.off + buf.len <= o /\ o < buf.off + buf.len + outcome.n}
    ELSE {}

\* The bytes the callback's answer takes out of the window undelivered: the
\* skip it hands to the stream, or the rest of the window when a SkipBytes
\* verdict on a buffer shorter than the window ends in a stop
WindowSkipped(r, buf) ==
    IF r.outcome.t = "skip"
    THEN r.outcome.n
    ELSE IF r.outcome.t = "stop" /\ r.g.verdict.t = "skip"
            /\ CallbackCase(c.remain, buf) = "whole"
    THEN c.remain - buf.len
    ELSE 0

Returned(r, buf) ==
    /\ c' = r.c
    /\ sp' = r.sp
    /\ failed' = r.failed
    /\ g' = [r.g EXCEPT !.delivered = @ + Len(r.g.eaten),
                        !.skipped = @ + (IF r.failed = "none"
                                         THEN WindowSkipped(r, buf) ELSE 0),
                        !.eatenAll = @ \cup Range(r.g.eaten),
                        !.skippedOffs = @ \cup StreamSkipped(buf, r.outcome),
                        !.ffPending = FALSE]
    /\ strm' = IF r.failed = "none" THEN StreamAfter(buf, r.outcome) ELSE strm
    /\ last' = [Before("callback", CallbackCase(c.remain, buf), buf, 0, 0)
                  EXCEPT !.outcome = r.outcome, !.ret = r.ret]
    /\ UNCHANGED <<file, prog, nc>>

---------------------------------------------------------------------------
(* Actions *)

\* consume_input(): _input.consume(state_processor())
ConsumeInput ==
    /\ failed = "none"
    /\ ~strm.active
    /\ g.verify < MaxVerify
    /\ strm' = [strm EXCEPT !.active = TRUE]
    /\ g' = [g EXCEPT !.cyc = [pos |-> c.position, delivered |-> g.delivered,
                               skipped |-> g.skipped]]
    /\ last' = Before("consume_input", "-", Buf(0, 0), 0, 0)
    /\ UNCHANGED <<file, prog, nc, c, sp, failed>>

\* The stream hands the next k bytes
Deliver ==
    /\ failed = "none"
    /\ strm.active
    /\ \E k \in 1..(FileLen - strm.off) :
         Returned(Callback(Mach(Buf(strm.off, k)), Buf(strm.off, k)),
                  Buf(strm.off, k))

\* The stream is at the end of the file: it hands an empty buffer
DeliverEof ==
    /\ failed = "none"
    /\ strm.active
    /\ strm.off = FileLen
    /\ Returned(Callback(Mach(Buf(strm.off, 0)), Buf(strm.off, 0)),
                Buf(strm.off, 0))

Navigated(r, op, begin, end) ==
    /\ c' = r.c
    /\ failed' = r.failed
    /\ strm' = IF r.failed = "none"
               THEN [strm EXCEPT !.off = Min(@ + r.skip, FileLen)]
               ELSE strm
    /\ g' = [g EXCEPT !.ffs = @ + 1,
                      !.ffPending = TRUE,
                      !.wend = IF op = "skip_to" THEN @ ELSE end,
                      !.discarded = @ \cup
                         (IF c.prestate = "NONE" THEN {}
                          ELSE IF c.prestate = "READING_BYTES"
                          THEN Range(SubSeq(g.bytes_src, 1, c.pos))
                          ELSE Range(SubSeq(g.int_src, 1, c.pos)))]
    /\ last' = Before(op, "-", Buf(0, 0), begin, end)
    /\ UNCHANGED <<file, prog, nc, sp>>

\* The ends tried for a new window at begin: before begin, an empty window,
\* short windows, and a window that reaches beyond the end of the file
WindowEnds(begin) == {begin - 1, begin, begin + 1, begin + 3, FileLen + 1}

FastForwardTo ==
    /\ failed = "none"
    /\ ~strm.active
    /\ g.ffs < MaxFF
    /\ \E begin \in (c.position - 1)..FileLen :
         \E end \in WindowEnds(begin) :
            /\ begin >= 0
            /\ end >= 0
            /\ Navigated(fast_forward_to(Mach(Buf(0, 0)), begin, end),
                         "fast_forward_to", begin, end)

SkipTo ==
    /\ failed = "none"
    /\ ~strm.active
    /\ g.ffs < MaxFF
    /\ \E begin \in (c.position - 1)..FileLen :
         /\ begin >= 0
         /\ Navigated(skip_to(Mach(Buf(0, 0)), begin), "skip_to", begin,
                      c.position + c.remain)

Next == ConsumeInput \/ Deliver \/ DeliverEof \/ FastForwardTo \/ SkipTo

Spec == Init /\ [][Next]_vars

NextSlice == ConsumeInput \/ Deliver \/ DeliverEof

SpecSlice == InitSlice /\ [][NextSlice]_vars

StreamStates == [off : 0..FileLen, active : BOOLEAN]

\* The stream takes its turn in a drive cycle: it hands the next buffer (an
\* empty one at the end of the file) and acts on the callback's answer.
\* Every Deliver and DeliverEof step that does not abort is such a turn.
Handing ==
    /\ strm.active
    /\ failed = "none"
    /\ strm' \in StreamStates

\* consume() does not stop handing buffers before the callback answers stop
SpecLive == Init /\ [][Next]_vars /\ WF_strm(Handing)

---------------------------------------------------------------------------
(* Quantities the properties speak of *)

\* The part of the last buffer that operator() handed to process()
Handed == Min(last.buf.len, last.rem)

\* What process() left of it
Leftover == Handed - Len(g.eaten)

\* The callback returned (it did not abort)
Called == last.op = "callback" /\ failed = "none"

Navigation == {"fast_forward_to", "skip_to"}

\* The slots and values published, without the offsets they were read from
Values(pub) ==
    [i \in 1..Len(pub) |-> [slot |-> pub[i].slot, val |-> pub[i].val]]

IsPrefix(s, t) == Len(s) <= Len(t) /\ s = SubSeq(t, 1, Len(s))

\* The whole window in a single buffer, handed to a new consumer
WholeWindow == Buf(g.start, Min(g.maxlen, FileLen - g.start))

SingleBuffer ==
    Callback(MachOf(NewConsumer(g.start, g.maxlen), NewProcessor,
                    NewHistory(g.start, g.maxlen), WholeWindow),
             WholeWindow)

SameAsSingle(ref) ==
    /\ IsPrefix(Values(g.pub), Values(ref.g.pub))
    /\ g.delivered = Len(ref.g.eaten) => Values(g.pub) = Values(ref.g.pub)

---------------------------------------------------------------------------
(* C1: slicing-invariance.  Under SpecSlice (any file over SliceBytes, a   *)
(* StateProcessor that only reads, the stream cutting the window into any  *)
(* non-empty buffers) the values published so far are a prefix of those    *)
(* the single-buffer delivery publishes, and the same sequence once as     *)
(* many bytes have been consumed.                                          *)
SlicingInvariance == SameAsSingle(SingleBuffer)

\* A window delivered in several buffers, the last one a single byte that
\* completed a read begun in an earlier buffer
SlicingWitness ==
    /\ Called
    /\ last.pre # "NONE"
    /\ last.buf.len = 1
    /\ c.prestate = "NONE"
    /\ Len(g.pub) >= 2
    /\ Values(g.pub) = Values(SingleBuffer.g.pub)
    /\ \E i \in 1..Len(g.pub) : Len(g.pub[i].val) > 1 /\
          g.pub[i].val[1] # g.pub[i].val[Len(g.pub[i].val)]

(* C2: window clipping.  A callback whose buffer is at least as long as    *)
(* remaining lets only the first `remaining` bytes of the buffer be        *)
(* consumed, and returns StopConsuming with exactly the rest of the        *)
(* buffer: the bytes after the consumed ones, in order.                    *)
WindowClipping ==
    (Called /\ last.case = "clipped") =>
        /\ \A o \in Range(g.eaten) :
              /\ last.buf.off <= o
              /\ o < last.buf.off + last.rem
              /\ o < last.pos + last.rem
        /\ g.eaten = Offsets(Buf(last.buf.off, Len(g.eaten)))
        /\ last.outcome.t = "stop"
        /\ last.outcome.tail =
              Buf(last.buf.off + Len(g.eaten), last.buf.len - Len(g.eaten))

\* A clipped buffer with bytes beyond the window and an unconsumed part of
\* the prefix
ClippingWitness ==
    /\ Called
    /\ last.case = "clipped"
    /\ 0 < Len(g.eaten)
    /\ Len(g.eaten) < last.rem
    /\ last.rem < last.buf.len

WindowBound ==
    g.ffs = 0 =>
        /\ g.delivered + g.skipped <= g.maxlen
        /\ (Called /\ c.remain = 0) =>
              /\ g.delivered + g.skipped = g.maxlen
              /\ g.verify = 1

(* C5: position accounting.  When a callback returns, position has moved,  *)
(* since consume_input() was called, by the bytes consumed from the        *)
(* buffers plus the bytes skipped.                                         *)
PositionAccounting ==
    Called =>
        c.position - g.cyc.pos =
            (g.delivered - g.cyc.delivered) + (g.skipped - g.cyc.skipped)

\* The end of a drive cycle that consumed bytes, skipped bytes and handed
\* back a leftover
AccountingWitness ==
    /\ Called
    /\ last.outcome.t = "stop"
    /\ last.outcome.tail.len > 0
    /\ g.delivered > g.cyc.delivered
    /\ g.skipped > g.cyc.skipped

(* C6: position() is the offset of the next byte the stream hands, after   *)
(* every callback and after fast_forward_to / skip_to; so the first byte   *)
(* delivered after a fast_forward_to(begin, end) is the byte at begin.     *)
PositionIsNextOffset ==
    /\ (failed = "none" /\ last.op \in Navigation \cup {"callback"}
          /\ c.position <= FileLen)
          => c.position = strm.off
    /\ (Called /\ last.afterFF /\ last.buf.len > 0)
          => last.buf.off = last.pos

(* C7: skip within the window.  A SkipBytes{n} verdict on a drained buffer *)
(* with n smaller than what the window holds after the buffer is returned  *)
(* to the stream; position moves n beyond the buffer, remaining drops by   *)
(* n, and no skipped byte is ever consumed.                                *)
SkipWithinWindow ==
    /\ (Called /\ g.verdict.t = "skip" /\ Leftover = 0
          /\ g.verdict.n < last.rem - last.buf.len)
          => /\ last.outcome = SkipOutcome(g.verdict.n)
             /\ c.position = last.pos + last.buf.len + g.verdict.n
             /\ c.remain = last.rem - last.buf.len - g.verdict.n
    /\ g.skippedOffs \cap g.eatenAll = {}

\* Bytes consumed beyond a skip the stream performed
SkipWitness ==
    /\ Called
    /\ g.skippedOffs # {}
    /\ \E o \in Range(g.eaten) : \A k \in g.skippedOffs : k < o

(* C8: a skip that exhausts the window.  A SkipBytes{n} verdict on a       *)
(* drained buffer with n at least what the window holds after the buffer   *)
(* moves position to the window end, zeroes remaining, calls               *)
(* verify_end_state and returns StopConsuming with an empty tail, in       *)
(* either callback case.                                                   *)
SkipExhaustsWindow ==
    (Called /\ g.verdict.t = "skip" /\ Leftover = 0
       /\ g.verdict.n >= last.rem - Handed)
       => /\ c.position = last.pos + last.rem
          /\ c.remain = 0
          /\ g.verify = last.verify + 1
          /\ last.outcome.t = "stop"
          /\ last.outcome.tail.len = 0

(* C9: a SkipBytes verdict returned while the buffer handed to             *)
(* process_state is not empty aborts, in either callback case.             *)
SkipWithLeftoverAborts ==
    (last.op = "callback" /\ g.verdict.t = "skip" /\ Leftover > 0)
       => failed # "none"

(* C10: fast_forward_to / skip_to reset the prestate: afterwards it is     *)
(* NONE, no byte of the read that was in flight is part of a published     *)
(* value, and the next callback calls process_state without resuming.      *)
FastForwardResets ==
    /\ (failed = "none" /\ last.op \in Navigation) => c.prestate = "NONE"
    /\ \A i \in 1..Len(g.pub) : Range(g.pub[i].src) \cap g.discarded = {}
    /\ (Called /\ last.afterFF) =>
          /\ ~g.resumedFirst
          /\ Handed > 0 => g.psCalls >= 1

\* A value published by the first callback after a fast_forward_to that
\* dropped a read in flight
ResetWitness ==
    /\ Called
    /\ last.afterFF
    /\ g.discarded # {}
    /\ g.psCalls >= 1
    /\ Len(g.pub) > last.npub

\* skip_to(begin) did what the claim says
SkippedTo ==
    /\ failed = "none"
    /\ c.position = last.begin
    /\ c.position + c.remain = last.pos + last.rem

(* C11, as claimed: skip_to(begin) with begin >= position completes        *)
(* without a precondition failure, sets position to begin and leaves the   *)
(* window end position + remaining unchanged.                              *)
SkipToKeepsEnd ==
    (last.op = "skip_to" /\ last.begin >= last.pos) => SkippedTo

(* C11, amended: that holds for position <= begin <= position + remaining; *)
(* skip_to(begin) with begin beyond the window end fails the assertion     *)
(* end >= position of fast_forward_to.                                     *)
SkipToWithinWindow ==
    /\ (last.op = "skip_to" /\ last.pos <= last.begin
          /\ last.begin <= last.pos + last.rem) => SkippedTo
    /\ (last.op = "skip_to" /\ last.begin > last.pos + last.rem)
          => failed = "assert(end >= _stream_position.position)"

\* A skip_to that moved position inside a window with bytes left
SkipToWitness ==
    /\ last.op = "skip_to"
    /\ failed = "none"
    /\ last.pos < last.begin
    /\ c.remain > 0

(* C12, as claimed: after every callback, with no fast_forward_to,         *)
(* remaining plus the bytes delivered to the StateProcessor is maxlen,     *)
(* for every verdict.                                                      *)
RemainingPlusDelivered ==
    (Called /\ g.ffs = 0) => c.remain + g.delivered = g.maxlen

(* C12, amended: after every callback, with no fast_forward_to, remaining  *)
(* plus the bytes delivered plus the bytes skipped is maxlen.              *)
RemainingBudget ==
    (Called /\ g.ffs = 0) => c.remain + g.delivered + g.skipped = g.maxlen

\* A callback that consumed bytes after a skip inside the window, with the
\* window not yet exhausted
BudgetWitness ==
    /\ Called
    /\ g.ffs = 0
    /\ g.skipped > 0
    /\ c.remain > 0
    /\ g.verdict.t # "skip"
    /\ Len(g.eaten) > 0

(* C13: every callback with an empty buffer invokes verify_end_state and   *)
(* returns StopConsuming with an empty tail, whatever remaining, the       *)
(* prestate and the state of the StateProcessor.                           *)
EofVerifies ==
    (last.op = "callback" /\ last.buf.len = 0)
       => /\ failed = "none"
          /\ g.verify = last.verify + 1
          /\ last.outcome.t = "stop"
          /\ last.outcome.tail.len = 0

(* C14: position() never decreases from one operation to the next, and     *)
(* eof() is true exactly when position is the end of the window (the end   *)
(* given at construction or by the last fast_forward_to).                  *)
PositionMonotone ==
    /\ c.position >= last.pos
    /\ failed = "none" => (eof <=> position = g.wend)

\* A callback that moved position to the end of a window set by a
\* fast_forward_to
MonotoneWitness ==
    /\ Called
    /\ last.afterFF
    /\ g.wend # g.start + g.maxlen
    /\ last.pos > g.start
    /\ position > last.pos
    /\ eof

\* consume_input() has resolved: the stream was told to stop, or the
\* callback aborted
Resolved == ~strm.active \/ failed # "none"

\* Every drive cycle resolves
DriveResolves == strm.active ~> Resolved

\* A stop has one of the three reasons
StopReason ==
    (Called /\ last.outcome.t = "stop")
       => (last.buf.len = 0 \/ eof \/ ResultIs(last.ret, "no"))

(* C15: under SpecLive every drive cycle eventually returns a stop to the  *)
(* stream, and a stop is returned only at end of file (an empty buffer),   *)
(* with the window exhausted (remaining == 0), or for a Proceed::No        *)
(* verdict.                                                                *)
ConsumeInputResolves == DriveResolves /\ []StopReason

\* The widths of the slots; a byte slice has the len of a read_bytes
SlotWidths(slot) ==
    CASE slot = "u8" -> {SizeU8}
      [] slot = "u16" -> {SizeU16}
      [] slot = "u32" -> {SizeU32}
      [] slot = "u64" -> {SizeU64}
      [] OTHER -> {prog[i].n : i \in {j \in 1..Len(prog) : prog[j].k = "bytes"}}

\* The value of the bytes at the offsets src: big-endian for an integer
Decoded(slot, src) ==
    IF slot = "where"
    THEN [i \in 1..Len(src) |-> file[src[i] + 1]]
    ELSE Bswap([i \in 1..Len(src) |-> file[src[i] + 1]])

\* A published value is whole: as many bytes as its slot is wide, read from
\* consecutive offsets of the stream
Whole(p) ==
    /\ Len(p.src) \in SlotWidths(p.slot)
    /\ \A i \in 1..Len(p.src) : p.src[i] = p.src[1] + i - 1
    /\ p.src[1] >= 0
    /\ p.val = Decoded(p.slot, p.src)

\* The content of a slot is the last value published to it
SlotIsLastPublished(slot) ==
    \/ /\ c[slot] = <<>>
       /\ \A i \in 1..Len(g.pub) : g.pub[i].slot # slot
    \/ \E i \in 1..Len(g.pub) :
          /\ g.pub[i].slot = slot
          /\ g.pub[i].val = c[slot]
          /\ \A j \in (i + 1)..Len(g.pub) : g.pub[j].slot # slot

(* C16: atomic publication.  process_state is never entered with a         *)
(* prestate armed; a slot only ever holds a value that was published       *)
(* whole: all the bytes of its width, consecutive in the stream, decoded   *)
(* big-endian; nothing else writes the slots.                              *)
AtomicPublication ==
    /\ ~g.psArmed
    /\ \A i \in 1..Len(g.pub) : Whole(g.pub[i])
    /\ \A slot \in {"u8", "u16", "u32", "u64", "where"} :
          SlotIsLastPublished(slot)

\* A value whose last byte arrived alone, its first bytes in earlier
\* buffers, published while another read of the same callback stays armed
\* or the window goes on
AtomicWitness ==
    /\ Called
    /\ g.disarmedAt # NoByte
    /\ last.pre \in {"READING_U32", "READING_U64", "READING_BYTES"}
    /\ last.cpos = last.width - 1
    /\ last.buf.len = 1
    /\ Len(g.pub) = last.npub + 1
    /\ Len(g.pub[Len(g.pub)].src) = last.width

\* What a callback entered with a prestate armed at last.cpos leaves, n being
\* the bytes resumption has to copy
Resumed(n) ==
    /\ Len(g.eaten) >= n
    /\ IF last.cpos + n = last.width
       THEN /\ g.disarmedAt = 0
            /\ Len(g.pub) > last.npub
            /\ Len(g.pub[last.npub + 1].src) = last.width
            /\ SubSeq(g.pub[last.npub + 1].src, last.cpos + 1, last.width)
                  = Offsets(Buf(last.buf.off, n))
       ELSE /\ g.disarmedAt = NoByte
            /\ c.prestate = last.pre
            /\ c.pos = last.cpos + n
            /\ Len(g.eaten) = n

(* C17: prestate cursor.  While a prestate is armed _pos is smaller than   *)
(* the width of the read, so neither assert(_pos < len) nor the unknown-   *)
(* prestate fault ever happens; a callback entered with a prestate armed   *)
(* copies min(width - _pos, size) bytes, and disarms exactly when _pos     *)
(* reaches the width.                                                      *)
CursorInvariant ==
    /\ c.prestate # "NONE" => c.pos < Width(c)
    /\ failed \notin {"assert(_pos < len)", "malformed_sstable_exception"}
    /\ (Called /\ last.pre # "NONE")
          => Resumed(Min(last.width - last.cpos, Handed))

\* A read resumed by a buffer that leaves it one byte short
CursorWitness ==
    /\ Called
    /\ last.pre # "NONE"
    /\ last.cpos > 0
    /\ Handed >= 2
    /\ c.prestate = last.pre
    /\ c.pos = last.width - 1

(* C18: a prestate that is still armed when process() looks at it leaves   *)
(* the buffer empty: assert(data.size() == 0) in process never fails,      *)
(* process returns Proceed::Yes, and a buffer shorter than the window is   *)
(* answered with ContinueConsuming.                                        *)
ArmedMeansDrained ==
    /\ failed # "assert(data.size() == 0) in process"
    /\ (Called /\ c.prestate # "NONE")
          => /\ Leftover = 0
             /\ ResultIs(last.ret, "yes")
             /\ last.case = "whole" => last.outcome = Continue

\* A read that two buffers in a row leave armed
StillArmedWitness ==
    /\ Called
    /\ last.case = "whole"
    /\ last.pre # "NONE"
    /\ last.cpos >= 1
    /\ last.buf.len = 1
    /\ c.prestate = last.pre
    /\ c.pos = last.cpos + 1
    /\ last.outcome = Continue

(* C19: no byte is dropped on continue.  A callback that answers           *)
(* ContinueConsuming has consumed the whole buffer; remaining is debited   *)
(* and position credited by the size of the buffer.                        *)
ContinueDrains ==
    (Called /\ last.outcome.t = "continue")
       => /\ Leftover = 0
          /\ g.eaten = Offsets(last.buf)
          /\ c.remain = last.rem - last.buf.len
          /\ c.position = last.pos + last.buf.len

\* A continue after the loop of process ran several states on one buffer
ContinueWitness ==
    /\ Called
    /\ last.outcome.t = "continue"
    /\ g.psCalls >= 3
    /\ Len(g.pub) >= last.npub + 2
    /\ c.prestate = "NONE"

(* C20: completion is followed by scheduling.  When resumption disarms a   *)
(* prestate during a callback, process_state is called after it in the     *)
(* same callback, also when the buffer is empty by then and                *)
(* non_consuming() is false; the StateProcessor has left the state that    *)
(* waited for the value.                                                   *)
CompletionScheduled ==
    (Called /\ g.disarmedAt # NoByte)
       => /\ g.psCalls > g.disarmedAt
          /\ last.phase = "resume" => (sp.phase = "start" \/ g.psCalls >= 2)

\* A buffer that holds exactly the missing bytes of the read, handed to a
\* StateProcessor without non-consuming states
CompletionWitness ==
    /\ Called
    /\ ~nc
    /\ last.phase = "resume"
    /\ g.disarmedAt = 0
    /\ last.cpos > 0
    /\ last.buf.len = last.width - last.cpos
    /\ g.eaten = Offsets(last.buf)
    /\ g.psCalls = 1

====
